---- MODULE Spec2Model ----
(***************************************************************************)
(* Model of the website-builder file mutation engine of src/main.py:       *)
(* the storage (the website directory and its three files), the five tool  *)
(* handlers and the start-up block.                                        *)
(*                                                                         *)
(* A text is a sequence of one-character strings.  What the storage holds  *)
(* is the text as written (POSIX text mode writes "\n" unchanged); what a  *)
(* text-mode read returns is that text after Python's universal-newlines   *)
(* translation.                                                            *)
(***************************************************************************)
EXTENDS Integers, Sequences, FiniteSets, TLC

VARIABLES dirExists, stored, content, call, result, calls, threads

vars == <<dirExists, stored, content, call, result, calls, threads>>

-----------------------------------------------------------------------------
(* Bounds of the exploration *)

\* number of tool calls explored in one run
MaxCalls == 4

\* longest batch of edit operations handed to update_file_tool
MaxBatch == 2

-----------------------------------------------------------------------------
(* Program constants *)

WEBSITE_DIR == "website"

FILES == <<"index.html", "styles.css", "script.js">>

FileSet == {FILES[i] : i \in 1..Len(FILES)}

\* a name that is not one of FILES
OtherNames == {"nope.txt"}

Names == FileSet \cup OtherNames

NL == "\n"
CR == "\r"

-----------------------------------------------------------------------------
(* Text-mode file input and output *)

RECURSIVE Concat(_)
\* f.writelines(lines) / "".join: the lines one after the other, nothing added
Concat(lines) ==
    IF lines = <<>> THEN <<>> ELSE Head(lines) \o Concat(Tail(lines))

RECURSIVE Translate(_)
\* open(path, "r") with newline=None: "\r\n" and a lone "\r" are read as "\n"
Translate(t) ==
    IF t = <<>> THEN <<>>
    ELSE IF Head(t) = CR
         THEN IF Len(t) >= 2 /\ t[2] = NL
              THEN <<NL>> \o Translate(SubSeq(t, 3, Len(t)))
              ELSE <<NL>> \o Translate(Tail(t))
         ELSE <<Head(t)>> \o Translate(Tail(t))

\* f.read() of a file opened in text mode
ReadText(t) == Translate(t)

\* f.write(s) of a file opened in text mode "w" (os.linesep = "\n")
WriteText(s) == s

RECURSIVE SplitLines(_, _)
\* the lines of t, each keeping its "\n"; the last one may have none
SplitLines(t, cur) ==
    IF t = <<>> THEN (IF cur = <<>> THEN <<>> ELSE <<cur>>)
    ELSE IF Head(t) = NL
         THEN <<Append(cur, NL)>> \o SplitLines(Tail(t), <<>>)
         ELSE SplitLines(Tail(t), Append(cur, Head(t)))

\* f.readlines() of a file opened in text mode
readlines(t) == SplitLines(ReadText(t), <<>>)

\* f.writelines(lines) of a file opened in text mode "w"
writelines(lines) == WriteText(Concat(lines))

-----------------------------------------------------------------------------
(* Results handed back to the caller *)

\* variant: no existence test, so that open() raises instead
NotFoundRaises(file) == [fault |-> "FileNotFoundError"]

\* {"error": f"{file} does not exist"}
NotFound(file) == [error |-> <<file, " does not exist">>]

\* {"error": f"Invalid file. Choose from: {FILES}"}
InvalidFile == [error |-> <<"Invalid file. Choose from: ", FILES>>]

\* an exception that leaves the handler instead of a returned record
Raised(exception) == [fault |-> exception]

\* what the caller holds before any tool has returned
NoResult == [idle |-> TRUE]

-----------------------------------------------------------------------------
(* The storage as the handlers see it: st = [dir, stored, content]         *)

\* os.path.exists(os.path.join(WEBSITE_DIR, file))
Exists(st, file) == st.dir /\ file \in st.stored

\* variant: the file is opened for writing without the existence test
CreateAlways(st, file) ==
    [st EXCEPT !.stored = @ \cup {file}, !.content[file] = <<>>]

\* variant: the existence test inverted
CreateIfPresent(st, file) ==
    IF Exists(st, file) THEN [st EXCEPT !.content[file] = <<>>] ELSE st

\* one round of the loop of ensure_files_exist: create file empty if missing
CreateMissing(st, file) ==
    IF ~Exists(st, file)
    THEN [st EXCEPT !.stored = @ \cup {file}, !.content[file] = WriteText(<<>>)]
    ELSE st

RECURSIVE CreateAll(_, _)
\* the loop of ensure_files_exist over FILES, in order
CreateAll(st, files) ==
    IF files = <<>> THEN st
    ELSE CreateAll(CreateMissing(st, Head(files)), Tail(files))

ensure_files_exist(st) ==
    LET made == [st EXCEPT !.dir = TRUE]
    IN  [st  |-> CreateAll(made, FILES),
         ret |-> [created |-> SelectSeq(FILES, LAMBDA f : ~Exists(made, f))]]

\* variant: the files are created before the read, as get_website_state does
read_fileEnsuring(st, file) ==
    LET e == ensure_files_exist(st).st
    IN  [st |-> e, ret |-> [file |-> file, content |-> ReadText(e.content[file])]]

read_file(st, file) ==
    IF ~Exists(st, file)
    THEN [st |-> st, ret |-> NotFound(file)]
    ELSE [st |-> st, ret |-> [file |-> file, content |-> ReadText(st.content[file])]]

\* variant: the directory is made before the file is opened
write_fileMakingDir(st, file, text) ==
    [st  |-> [st EXCEPT !.dir = TRUE, !.stored = @ \cup {file},
                        !.content[file] = text],
     ret |-> [status |-> "ok", file |-> file]]

\* open(path, "w") raises FileNotFoundError when the directory is missing
write_file(st, file, text) ==
    IF ~st.dir
    THEN [st |-> st, ret |-> Raised("FileNotFoundError")]
    ELSE [st  |-> [st EXCEPT !.stored = @ \cup {file},
                             !.content[file] = WriteText(text)],
          ret |-> [status |-> "ok", file |-> file]]

-----------------------------------------------------------------------------
(* Line-level updates *)

RecognizedActions == {"replace", "insert", "delete"}

\* change.get("action")
ActionOf(change) == IF "action" \in DOMAIN change THEN change.action ELSE "None"

\* change.get("line") is None
LineIsNone(change) == "line" \notin DOMAIN change

\* change.get("content", "") + "\n"
NewLine(change) ==
    (IF "content" \in DOMAIN change THEN change.content ELSE <<>>) \o <<NL>>

\* variant: insert held to the same range as replace and delete
InRangeStrict(action, line, n) == 0 <= line /\ line < n

\* the conditions on the index: 0 <= line < len(lines), and <= for insert
InRange(action, line, n) ==
    IF action = "insert" THEN 0 <= line /\ line <= n
                         ELSE 0 <= line /\ line < n

\* lines[line] = new, lines.insert(line, new), lines.pop(line)
Edit(lines, action, line, new) ==
    CASE action = "replace" -> [lines EXCEPT ![line + 1] = new]
      [] action = "insert"  -> SubSeq(lines, 1, line) \o <<new>>
                               \o SubSeq(lines, line + 1, Len(lines))
      [] action = "delete"  -> SubSeq(lines, 1, line)
                               \o SubSeq(lines, line + 2, Len(lines))

\* a branch of the if/elif chain; comparing 0 <= None raises TypeError
Branch(lines, action, change) ==
    IF LineIsNone(change)
    THEN [ok |-> FALSE, lines |-> lines]
    ELSE IF InRange(action, change.line, Len(lines))
         THEN [ok |-> TRUE, lines |-> Edit(lines, action, change.line, NewLine(change))]
         ELSE [ok |-> TRUE, lines |-> lines]

\* variant: the last branch written as a plain else, so that every other
\* action deletes
ApplyChangeElseDelete(lines, change) ==
    IF ActionOf(change) \in {"replace", "insert"}
    THEN Branch(lines, ActionOf(change), change)
    ELSE Branch(lines, "delete", change)

\* the body of the loop of update_file: no branch for any other action
ApplyChange(lines, change) ==
    IF ActionOf(change) \in RecognizedActions
    THEN Branch(lines, ActionOf(change), change)
    ELSE [ok |-> TRUE, lines |-> lines]

RECURSIVE ApplyChangesReversed(_, _)
\* variant: the batch taken from its last change to its first
ApplyChangesReversed(lines, changes) ==
    IF changes = <<>> THEN [ok |-> TRUE, lines |-> lines]
    ELSE LET r == ApplyChange(lines, changes[Len(changes)])
         IN  IF r.ok
             THEN ApplyChangesReversed(r.lines, SubSeq(changes, 1, Len(changes) - 1))
             ELSE r

RECURSIVE ApplyChangesStopAtSkip(_, _)
\* variant: the loop ends at the first change whose index is out of range
ApplyChangesStopAtSkip(lines, changes) ==
    IF changes = <<>> THEN [ok |-> TRUE, lines |-> lines]
    ELSE LET c == Head(changes)
             r == ApplyChange(lines, c)
         IN  IF ~r.ok THEN r
             ELSE IF /\ ActionOf(c) \in RecognizedActions
                     /\ ~InRange(ActionOf(c), c.line, Len(lines))
                  THEN [ok |-> TRUE, lines |-> lines]
                  ELSE ApplyChangesStopAtSkip(r.lines, Tail(changes))

RECURSIVE ApplyChanges(_, _)
\* for change in changes: each change sees the list the earlier ones left
ApplyChanges(lines, changes) ==
    IF changes = <<>> THEN [ok |-> TRUE, lines |-> lines]
    ELSE LET r == ApplyChange(lines, Head(changes))
         IN  IF r.ok THEN ApplyChanges(r.lines, Tail(changes)) ELSE r

update_file(st, file, changes) ==
    IF ~Exists(st, file)
    THEN [st |-> st, ret |-> NotFound(file)]
    ELSE LET r == ApplyChanges(readlines(st.content[file]), changes)
         IN  IF ~r.ok
             THEN [st |-> st, ret |-> Raised("TypeError")]
             ELSE [st  |-> [st EXCEPT !.content[file] = writelines(r.lines)],
                   ret |-> [status |-> "ok", file |-> file, changes |-> changes]]

get_website_state(st) ==
    LET e == ensure_files_exist(st)
    IN  [st  |-> e.st,
         ret |-> [website |-> [f \in FileSet |-> ReadText(e.st.content[f])]]]

-----------------------------------------------------------------------------
(* Inputs *)

Txt(s) == <<s>>

\* texts handed to write_file_tool
WriteContents ==
    { <<"a", NL, "b", NL, "c", NL>>,     \* three terminated lines
      <<"a", NL, "b">>,                  \* last line without a newline
      <<"a", CR, NL>> }                  \* a CRLF line ending

OpContents == {Txt("X"), Txt("Y")}

LineValues == {-1, 0, 1, 2, 3}

\* edit operations: with a line index, and without one (the key is missing)
EditOps ==
    {[action |-> a, line |-> l, content |-> c] :
        a \in {"replace", "insert"}, l \in LineValues, c \in OpContents}
    \cup {[action |-> "delete", line |-> l] : l \in LineValues}
    \cup {[action |-> "move", line |-> l] : l \in LineValues}
    \cup {[action |-> a, content |-> Txt("X")] : a \in {"replace", "insert"}}
    \cup {[action |-> "delete"], [action |-> "move"]}

\* every batch of at most MaxBatch edit operations
Batches == UNION {[1..k -> EditOps] : k \in 0..MaxBatch}

\* the batches a session of several calls sends
SessionBatches ==
    { <<>>,
      <<[action |-> "insert", line |-> 0, content |-> Txt("X")]>>,
      <<[action |-> "insert", line |-> 2, content |-> Txt("X")]>>,
      <<[action |-> "replace", content |-> Txt("X")]>>,
      <<[action |-> "insert", line |-> 1, content |-> Txt("X")],
        [action |-> "replace", line |-> 1, content |-> Txt("Y")]>> }

-----------------------------------------------------------------------------
(* The state machine *)

Store == [dir |-> dirExists, stored |-> stored, content |-> content]

Call(op, file, text, changes) ==
    [op |-> op, file |-> file, content |-> text, changes |-> changes]

\* the callers whose calls may overlap
Procs == {"p", "q"}

\* a caller with no call in progress; the fields are the locals of the handlers
Idle ==
    [pc |-> "idle", op |-> "", file |-> "", changes |-> <<>>, out |-> <<>>,
     i |-> 0, created |-> <<>>, website |-> [f \in FileSet |-> <<>>],
     old |-> <<>>, ret |-> NoResult]

Init ==
    /\ dirExists = FALSE
    /\ stored = {}
    /\ content = [n \in Names |-> <<>>]
    /\ call = Call("init", "", <<>>, <<>>)
    /\ result = NoResult
    /\ calls = 0
    /\ threads = [p \in Procs |-> Idle]

\* a handler has run: out = [st, ret]
Return(c, out) ==
    /\ dirExists' = out.st.dir
    /\ stored' = out.st.stored
    /\ content' = out.st.content
    /\ call' = c
    /\ result' = out.ret
    /\ UNCHANGED threads

\* a tool call and its handler, run to completion
Tool(c, out) ==
    /\ calls < MaxCalls
    /\ calls' = calls + 1
    /\ Return(c, out)

\* the start-up block: ensure_files_exist() before the server runs
Main ==
    /\ call.op = "init"
    /\ calls' = calls
    /\ Return(Call("__main__", "", <<>>, <<>>),
              [st |-> ensure_files_exist(Store).st, ret |-> NoResult])

ensure_website ==
    Tool(Call("ensure_website", "", <<>>, <<>>), ensure_files_exist(Store))

\* variant: no test of the name
ValidFileAny(file) == TRUE

\* file in FILES
ValidFile(file) == file \in FileSet

get_website ==
    Tool(Call("get_website", "", <<>>, <<>>), get_website_state(Store))

read_file_tool(file) ==
    Tool(Call("read_file_tool", file, <<>>, <<>>),
         IF ~ValidFile(file)
         THEN [st |-> Store, ret |-> InvalidFile]
         ELSE read_file(Store, file))

write_file_tool(file, text) ==
    Tool(Call("write_file_tool", file, text, <<>>),
         IF ~ValidFile(file)
         THEN [st |-> Store, ret |-> InvalidFile]
         ELSE write_file(Store, file, text))

update_file_tool(file, changes) ==
    Tool(Call("update_file_tool", file, <<>>, changes),
         IF ~ValidFile(file)
         THEN [st |-> Store, ret |-> InvalidFile]
         ELSE update_file(Store, file, changes))

Next ==
    \/ Main
    \/ ensure_website
    \/ get_website
    \/ \E file \in Names : read_file_tool(file)
    \/ \E file \in Names, text \in WriteContents : write_file_tool(file, text)
    \/ \E file \in Names, changes \in SessionBatches : update_file_tool(file, changes)

\* sessions of at most MaxCalls tool calls, from a project with no storage yet
Spec == Init /\ [][Next]_vars

-----------------------------------------------------------------------------
(* One update_file_tool call, over every batch, on a project that the      *)
(* start-up block and at most one write_file_tool call have left: every    *)
(* file exists, at most one of them holds text                              *)

Fixtures == WriteContents \cup {<<>>}

InitPatch ==
    /\ dirExists = TRUE
    /\ stored = FileSet
    /\ content \in {c \in [Names -> Fixtures] :
                       /\ \A n \in OtherNames : c[n] = <<>>
                       /\ Cardinality({n \in FileSet : c[n] # <<>>}) <= 1}
    /\ call = Call("init", "", <<>>, <<>>)
    /\ result = NoResult
    /\ calls = MaxCalls - 1
    /\ threads = [p \in Procs |-> Idle]

NextPatch ==
    /\ calls < MaxCalls
    /\ \E file \in FileSet, changes \in Batches : update_file_tool(file, changes)

SpecPatch == InitPatch /\ [][NextPatch]_vars

-----------------------------------------------------------------------------
(* Two overlapping calls, each handler taken one file-system operation at   *)
(* a time. No handler holds a lock, so the operations of the two calls      *)
(* interleave in any order.                                                 *)

\* open(path, "w"): the file is created, or emptied if it exists
Truncate(file) ==
    /\ stored' = stored \cup {file}
    /\ content' = [content EXCEPT ![file] = <<>>]
    /\ UNCHANGED dirExists

\* the buffered text written at the position of the handle, which is 0:
\* what the file holds beyond the text stays
WriteAtStart(old, text) == text \o SubSeq(old, Len(text) + 1, Len(old))

\* the calls a caller may make
ConcCalls ==
    {Call("ensure_website", "", <<>>, <<>>), Call("get_website", "", <<>>, <<>>)}
    \cup {Call("read_file_tool", f, <<>>, <<>>) : f \in Names}
    \cup {Call("write_file_tool", f, t, <<>>) : f \in Names, t \in WriteContents}
    \cup {Call("update_file_tool", f, <<>>, b) : f \in Names, b \in SessionBatches}

At(p, pc) == threads[p].pc = pc

Goto(p, pc) == threads' = [threads EXCEPT ![p].pc = pc]

Done(p, ret) == threads' = [threads EXCEPT ![p].pc = "done", ![p].ret = ret]

\* what the calls served one at a time leave behind, not used here
Served == <<call, result, calls>>

\* the tool function is entered: the test of the name, then the handler
Begin(p, c) ==
    /\ At(p, "idle")
    /\ LET t == [Idle EXCEPT !.op = c.op, !.file = c.file,
                             !.changes = c.changes, !.out = c.content]
           first == CASE c.op = "read_file_tool"   -> "read_exists"
                      [] c.op = "write_file_tool"  -> "open"
                      [] c.op = "update_file_tool" -> "update_exists"
                      [] OTHER                     -> "exists_dir"
       IN  threads' = [threads EXCEPT ![p] =
               IF c.op \in {"ensure_website", "get_website"} \/ ValidFile(c.file)
               THEN [t EXCEPT !.pc = first]
               ELSE [t EXCEPT !.pc = "done", !.ret = InvalidFile]]
    /\ UNCHANGED <<dirExists, stored, content>>
    /\ UNCHANGED Served

\* ensure_files_exist: if not os.path.exists(WEBSITE_DIR)
DirExists(p) ==
    /\ At(p, "exists_dir")
    /\ threads' = [threads EXCEPT ![p].pc = IF dirExists THEN "exists_file"
                                                         ELSE "makedirs",
                                  ![p].i = 1]
    /\ UNCHANGED <<dirExists, stored, content>>
    /\ UNCHANGED Served

\* os.makedirs(WEBSITE_DIR), which raises if the directory is there by now
Makedirs(p) ==
    /\ At(p, "makedirs")
    /\ IF dirExists
       THEN Done(p, Raised("FileExistsError")) /\ UNCHANGED dirExists
       ELSE Goto(p, "exists_file") /\ dirExists' = TRUE
    /\ UNCHANGED <<stored, content>>
    /\ UNCHANGED Served

\* the end of one round of the loop over FILES, and what follows the loop
Advance(t) ==
    IF t.i < Len(FILES) THEN [t EXCEPT !.pc = "exists_file", !.i = @ + 1]
    ELSE IF t.op = "get_website" THEN [t EXCEPT !.pc = "state_read", !.i = 1]
    ELSE [t EXCEPT !.pc = "done", !.ret = [created |-> t.created]]

\* if not os.path.exists(path)
FileExists(p) ==
    /\ At(p, "exists_file")
    /\ threads' = [threads EXCEPT ![p] =
           IF Exists(Store, FILES[@.i]) THEN Advance(@) ELSE [@ EXCEPT !.pc = "create"]]
    /\ UNCHANGED <<dirExists, stored, content>>
    /\ UNCHANGED Served

\* with open(path, "w"): pass, and created.append(f)
Create(p) ==
    /\ At(p, "create")
    /\ Truncate(FILES[threads[p].i])
    /\ threads' = [threads EXCEPT ![p] =
           Advance([@ EXCEPT !.created = Append(@, FILES[threads[p].i])])]
    /\ UNCHANGED Served

\* get_website_state: one round of the loop that reads the files
StateRead(p) ==
    /\ At(p, "state_read")
    /\ LET f == FILES[threads[p].i]
           w == [threads[p].website EXCEPT ![f] = ReadText(content[f])]
       IN  threads' = [threads EXCEPT ![p] =
               IF @.i < Len(FILES)
               THEN [@ EXCEPT !.website = w, !.i = @ + 1]
               ELSE [@ EXCEPT !.website = w, !.pc = "done",
                              !.ret = [website |-> w]]]
    /\ UNCHANGED <<dirExists, stored, content>>
    /\ UNCHANGED Served

\* read_file: if not os.path.exists(path)
ReadExists(p) ==
    /\ At(p, "read_exists")
    /\ IF Exists(Store, threads[p].file)
       THEN Goto(p, "read")
       ELSE Done(p, NotFound(threads[p].file))
    /\ UNCHANGED <<dirExists, stored, content>>
    /\ UNCHANGED Served

\* read_file: open(path, "r") and f.read()
Read(p) ==
    /\ At(p, "read")
    /\ Done(p, [file |-> threads[p].file,
                content |-> ReadText(content[threads[p].file])])
    /\ UNCHANGED <<dirExists, stored, content>>
    /\ UNCHANGED Served

\* write_file: open(path, "w"); old keeps what the file held until then
Open(p) ==
    /\ At(p, "open")
    /\ IF ~dirExists
       THEN /\ Done(p, Raised("FileNotFoundError"))
            /\ UNCHANGED <<dirExists, stored, content>>
       ELSE /\ Truncate(threads[p].file)
            /\ threads' = [threads EXCEPT ![p].pc = "flush",
                                          ![p].old = content[threads[p].file]]
    /\ UNCHANGED Served

\* write_file: f.write(content), flushed when the with block closes the file
Flush(p) ==
    /\ At(p, "flush")
    /\ content' = [content EXCEPT ![threads[p].file] =
                       WriteAtStart(@, WriteText(threads[p].out))]
    /\ Done(p, [status |-> "ok", file |-> threads[p].file])
    /\ UNCHANGED <<dirExists, stored>>
    /\ UNCHANGED Served

\* update_file: if not os.path.exists(path)
UpdateExists(p) ==
    /\ At(p, "update_exists")
    /\ IF Exists(Store, threads[p].file)
       THEN Goto(p, "readlines")
       ELSE Done(p, NotFound(threads[p].file))
    /\ UNCHANGED <<dirExists, stored, content>>
    /\ UNCHANGED Served

\* update_file: f.readlines() and the loop over the changes, in memory
Readlines(p) ==
    /\ At(p, "readlines")
    /\ LET r == ApplyChanges(readlines(content[threads[p].file]),
                             threads[p].changes)
       IN  IF r.ok
           THEN threads' = [threads EXCEPT ![p].pc = "update_open",
                                           ![p].out = writelines(r.lines)]
           ELSE Done(p, Raised("TypeError"))
    /\ UNCHANGED <<dirExists, stored, content>>
    /\ UNCHANGED Served

\* update_file: open(path, "w")
UpdateOpen(p) ==
    /\ At(p, "update_open")
    /\ Truncate(threads[p].file)
    /\ threads' = [threads EXCEPT ![p].pc = "update_flush",
                                  ![p].old = content[threads[p].file]]
    /\ UNCHANGED Served

\* update_file: f.writelines(lines), flushed when the file is closed
UpdateFlush(p) ==
    /\ At(p, "update_flush")
    /\ content' = [content EXCEPT ![threads[p].file] =
                       WriteAtStart(@, WriteText(threads[p].out))]
    /\ Done(p, [status |-> "ok", file |-> threads[p].file,
                changes |-> threads[p].changes])
    /\ UNCHANGED <<dirExists, stored>>
    /\ UNCHANGED Served



\* a project with no storage yet, or one that the start-up block and at
\* most one write_file_tool call have left
InitConc ==
    /\ \/ /\ dirExists = FALSE
          /\ stored = {}
          /\ content = [n \in Names |-> <<>>]
       \/ /\ dirExists = TRUE
          /\ stored = FileSet
          /\ content \in {c \in [Names -> Fixtures] :
                             /\ \A n \in OtherNames : c[n] = <<>>
                             /\ Cardinality({n \in FileSet : c[n] # <<>>}) <= 1}
    /\ call = Call("init", "", <<>>, <<>>)
    /\ result = NoResult
    /\ calls = 0
    /\ threads = [p \in Procs |-> Idle]

NextConc ==
    \/ \E p \in Procs, c \in ConcCalls : Begin(p, c)
    \/ \E p \in Procs : DirExists(p)
    \/ \E p \in Procs : Makedirs(p)
    \/ \E p \in Procs : FileExists(p)
    \/ \E p \in Procs : Create(p)
    \/ \E p \in Procs : StateRead(p)
    \/ \E p \in Procs : ReadExists(p)
    \/ \E p \in Procs : Read(p)
    \/ \E p \in Procs : Open(p)
    \/ \E p \in Procs : Flush(p)
    \/ \E p \in Procs : UpdateExists(p)
    \/ \E p \in Procs : Readlines(p)
    \/ \E p \in Procs : UpdateOpen(p)
    \/ \E p \in Procs : UpdateFlush(p)

SpecConc == InitConc /\ [][NextConc]_vars

-----------------------------------------------------------------------------
(* What an edit operation is specified to do, written on its own:           *)
(* the expected list after one operation, element by element                *)

HasIndex(op) == "line" \in DOMAIN op

Unknown(op) == op.action \notin {"replace", "insert", "delete"}

\* every operation of the batch that needs a line index has one
AllIndexed(batch) == \A i \in 1..Len(batch) : Unknown(batch[i]) \/ HasIndex(batch[i])

OpLine(op) == (IF "content" \in DOMAIN op THEN op.content ELSE <<>>) \o <<NL>>

\* the operation takes effect on a list of n lines
Effective(op, n) ==
    /\ ~Unknown(op)
    /\ HasIndex(op)
    /\ 0 <= op.line
    /\ IF op.action = "insert" THEN op.line <= n ELSE op.line < n

RefStep(L, op) ==
    LET n == Len(L)
    IN  IF ~Effective(op, n) THEN L
        ELSE CASE op.action = "replace" ->
                    [i \in 1..n |-> IF i = op.line + 1 THEN OpLine(op) ELSE L[i]]
               [] op.action = "insert" ->
                    [i \in 1..(n + 1) |->
                        IF i <= op.line THEN L[i]
                        ELSE IF i = op.line + 1 THEN OpLine(op) ELSE L[i - 1]]
               [] op.action = "delete" ->
                    [i \in 1..(n - 1) |-> IF i <= op.line THEN L[i] ELSE L[i + 1]]

RECURSIVE RefFold(_, _)
\* the list after the whole batch: the last operation applied to the list
\* that the operations before it leave
RefFold(L, batch) ==
    IF batch = <<>> THEN L
    ELSE RefStep(RefFold(L, SubSeq(batch, 1, Len(batch) - 1)), batch[Len(batch)])

\* the batch with its k-th operation left out
Without(batch, k) == SubSeq(batch, 1, k - 1) \o SubSeq(batch, k + 1, Len(batch))

\* a line without its terminating newline
Strip(l) == IF l # <<>> /\ l[Len(l)] = NL THEN SubSeq(l, 1, Len(l) - 1) ELSE l

\* the lines of a stored text, without their newlines
LinesOf(t) == LET L == readlines(t) IN [i \in 1..Len(L) |-> Strip(L[i])]

\* each line followed by one newline, the last one too
JoinNL(L) == Concat([i \in 1..Len(L) |-> Strip(L[i]) \o <<NL>>])

OkRecord(file, batch) == [status |-> "ok", file |-> file, changes |-> batch]

\* this step is update_file_tool on an artifact that exists
Applied ==
    /\ call'.op = "update_file_tool"
    /\ call'.file \in FileSet
    /\ dirExists
    /\ call'.file \in stored

\* the line list update_file reads in this step
Loaded == readlines(content[call'.file])

-----------------------------------------------------------------------------
(* C1: update_file leaves the file holding the lines obtained by applying   *)
(* the operations of the batch in input order, each index being taken      *)
(* against the list as the earlier operations of the batch left it.         *)
C1_InputOrder ==
    [][ (Applied /\ AllIndexed(call'.changes))
        => content'[call'.file] = Concat(RefFold(Loaded, call'.changes)) ]_vars

\* [a,b,c] with [insert 1 X, replace 1 Y] has become [a,Y,b,c]
C1_Canonical ==
    /\ call.op = "update_file_tool"
    /\ call.changes = <<[action |-> "insert", line |-> 1, content |-> Txt("X")],
                        [action |-> "replace", line |-> 1, content |-> Txt("Y")]>>
    /\ result = OkRecord(call.file, call.changes)
    /\ content[call.file] = <<"a", NL, "Y", NL, "b", NL, "c", NL>>

(* C2: an operation whose index is out of range (replace, delete: outside   *)
(* 0 <= line < length; insert: outside 0 <= line <= length, the length      *)
(* being that of the list as mutated so far) changes nothing and raises     *)
(* nothing: the call returns ok and the file holds what the batch without   *)
(* that operation gives, the earlier and the later operations applied.      *)
C2_OutOfRangeSkipped ==
    [][ (Applied /\ AllIndexed(call'.changes))
        => \A k \in 1..Len(call'.changes) :
             LET op == call'.changes[k]
                 sofar == RefFold(Loaded, SubSeq(call'.changes, 1, k - 1))
             IN  (~Unknown(op) /\ ~Effective(op, Len(sofar)))
                 => /\ result' = OkRecord(call'.file, call'.changes)
                    /\ content'[call'.file]
                         = Concat(RefFold(Loaded, Without(call'.changes, k))) ]_vars

\* [a,b,c] with [replace 3 Y, insert 0 X]: the replace is skipped, the insert applied
C2_SkippedThenApplied ==
    /\ call.op = "update_file_tool"
    /\ call.changes = <<[action |-> "replace", line |-> 3, content |-> Txt("Y")],
                        [action |-> "insert", line |-> 0, content |-> Txt("X")]>>
    /\ result = OkRecord(call.file, call.changes)
    /\ content[call.file] = <<"X", NL, "a", NL, "b", NL, "c", NL>>

(* C3: after a successful update_file the file holds every line of the      *)
(* resulting list followed by exactly one newline, the last line too,       *)
(* whatever the file held before.                                           *)
C3_EveryLineTerminated ==
    [][ (Applied /\ result' = OkRecord(call'.file, call'.changes))
        => content'[call'.file] = JoinNL(RefFold(Loaded, call'.changes)) ]_vars

(* C4: an insert at the index equal to the number of lines appends: one     *)
(* more line, the new last line is the content, and every line that was     *)
(* there keeps its index and its content.                                   *)
C4_InsertAtEndAppends ==
    [][ ( /\ Applied
          /\ Len(call'.changes) = 1
          /\ call'.changes[1].action = "insert"
          /\ HasIndex(call'.changes[1])
          /\ call'.changes[1].line = Len(Loaded) )
        => LET before == LinesOf(content[call'.file])
               after == LinesOf(content'[call'.file])
           IN  /\ Len(after) = Len(before) + 1
               /\ after[Len(after)] = call'.changes[1].content
               /\ \A i \in 1..Len(before) : after[i] = before[i] ]_vars

(* C5: an operation whose action is none of replace, insert, delete is      *)
(* ignored: the call returns ok and the file holds what the batch without   *)
(* that operation gives.                                                    *)
C5_UnknownActionIgnored ==
    [][ Applied
        => \A k \in 1..Len(call'.changes) :
             (Unknown(call'.changes[k]) /\ AllIndexed(Without(call'.changes, k)))
             => /\ result' = OkRecord(call'.file, call'.changes)
                /\ content'[call'.file]
                     = Concat(RefFold(Loaded, Without(call'.changes, k))) ]_vars

\* [a,b] with [move (no index), insert 0 X]: the move is ignored, the insert applied
C5_IgnoredThenApplied ==
    /\ call.op = "update_file_tool"
    /\ call.changes = <<[action |-> "move"],
                        [action |-> "insert", line |-> 0, content |-> Txt("X")]>>
    /\ result = OkRecord(call.file, call.changes)
    /\ content[call.file] = <<"X", NL, "a", NL, "b">>

-----------------------------------------------------------------------------
Storage == <<dirExists, stored, content>>

\* the artifact exists before this step
Present(file) == dirExists /\ file \in stored

(* C6: ensure returns exactly the canonical names that were absent when it  *)
(* was called, in the order of FILES; an ensure right after an ensure       *)
(* returns created = []; and ensure leaves the content of every artifact    *)
(* that already exists unchanged.                                           *)
C6_EnsureIdempotent ==
    [][ call'.op = "ensure_website"
        => /\ result' = [created |-> SelectSeq(FILES, LAMBDA f : ~Present(f))]
           /\ \A f \in FileSet : Present(f) => content'[f] = content[f]
           /\ \A f \in FileSet : f \in stored'
           /\ call.op = "ensure_website" => result'.created = <<>> ]_vars

\* ensure has run on a project that holds written text, and created nothing
C6_EnsureAfterWrite ==
    /\ call.op = "ensure_website"
    /\ result = [created |-> <<>>]
    /\ \E f \in FileSet : content[f] # <<>>

(* C7: write_file_tool(name, C) followed at once by read_file_tool(name)    *)
(* returns content exactly C.                                               *)
C7_WriteReadRoundTrip ==
    [][ ( /\ call.op = "write_file_tool"
          /\ call.file \in FileSet
          /\ result = [status |-> "ok", file |-> call.file]
          /\ call'.op = "read_file_tool"
          /\ call'.file = call.file )
        => result' = [file |-> call.file, content |-> call.content] ]_vars

(* C8: every tool call returns a record, with an error field exactly when   *)
(* the call did not succeed; no call ends in an exception.                  *)
C8_NoHardFault ==
    call.op \in {"ensure_website", "get_website", "read_file_tool",
                 "write_file_tool", "update_file_tool"}
    => "fault" \notin DOMAIN result

(* C9: for a name that is not one of FILES, read_file_tool, write_file_tool *)
(* and update_file_tool return the invalid-name error listing the valid     *)
(* names and leave the storage unchanged; the stored artifacts are always   *)
(* among the three canonical names.                                         *)
C9_InvalidNameRejected ==
    [][ /\ stored' \subseteq {"index.html", "styles.css", "script.js"}
        /\ ( /\ call'.op \in {"read_file_tool", "write_file_tool", "update_file_tool"}
             /\ call'.file \notin {"index.html", "styles.css", "script.js"} )
           => /\ result' = [error |-> <<"Invalid file. Choose from: ",
                                        <<"index.html", "styles.css", "script.js">> >>]
              /\ UNCHANGED Storage ]_vars

\* a write under another name was refused on a project that has its directory
C9_WriteRefused ==
    /\ call.op = "write_file_tool"
    /\ call.file \notin FileSet
    /\ call.content # <<>>
    /\ dirExists
    /\ "error" \in DOMAIN result

(* C10: read_file_tool and update_file_tool on a canonical name whose       *)
(* artifact does not exist return the error "<file> does not exist" and     *)
(* change nothing: the batch is not applied and the artifact not created.   *)
C10_MissingArtifact ==
    [][ ( /\ call'.op \in {"read_file_tool", "update_file_tool"}
          /\ call'.file \in FileSet
          /\ ~Present(call'.file) )
        => /\ result' = [error |-> <<call'.file, " does not exist">>]
           /\ UNCHANGED Storage ]_vars

\* a batch was sent for an artifact of a project that has no storage yet
C10_UpdateOnMissing ==
    /\ call.op = "update_file_tool"
    /\ call.file \in FileSet
    /\ call.changes # <<>>
    /\ "error" \in DOMAIN result
    /\ ~dirExists
    /\ stored = {}

-----------------------------------------------------------------------------
(* C11: get_website always succeeds: it returns a mapping with exactly the  *)
(* three canonical names, each mapped to the content that artifact holds,   *)
(* and never an error; on a project with no writes all three are empty.     *)
C11_SnapshotComplete ==
    [][ call'.op = "get_website"
        => /\ dirExists' /\ stored' = FileSet
           /\ result' = [website |-> [f \in FileSet |-> content'[f]]] ]_vars

(* C12: if the website directory exists, the three canonical files exist.   *)
C12_RootImpliesArtifacts == dirExists => FileSet \subseteq stored

\* ensure_website has made the directory and the three files of a new project
C12_EnsuredFromNothing ==
    /\ call.op = "ensure_website"
    /\ result = [created |-> FILES]
    /\ dirExists
    /\ stored = FileSet

(* C13: an artifact that exists exists in every later state, and an         *)
(* artifact comes into existence only in a step of ensure_files_exist:      *)
(* the start-up block, ensure_website or get_website.                       *)
C13_CreatedOnceByEnsure ==
    [][ \A f \in Names :
          /\ Present(f) => (dirExists' /\ f \in stored')
          /\ (~Present(f) /\ f \in stored')
             => call'.op \in {"__main__", "ensure_website", "get_website"} ]_vars

\* get_website, as the first call, has created the three artifacts
C13_CreatedBySnapshot ==
    /\ call.op = "get_website"
    /\ calls = 1
    /\ stored = FileSet
    /\ result = [website |-> [f \in FileSet |-> <<>>]]

(* C17: update_file_tool on a canonical artifact that exists always         *)
(* returns status ok, the file name and the batch it was given, unchanged.  *)
C17_EchoesBatch ==
    [][ Applied => result' = OkRecord(call'.file, call'.changes) ]_vars

(* C18: write_file_tool and update_file_tool on a name change at most the   *)
(* content of that artifact: the other names keep their existence and       *)
(* their content; read_file_tool, and every call that returns an error      *)
(* record, leave the whole storage unchanged.                               *)
C18_Frame ==
    [][ /\ call'.op \in {"write_file_tool", "update_file_tool"}
           => /\ dirExists' = dirExists
              /\ \A g \in Names \ {call'.file} :
                   /\ (g \in stored') = (g \in stored)
                   /\ content'[g] = content[g]
        /\ call'.op = "read_file_tool" => UNCHANGED Storage
        /\ "error" \in DOMAIN result' => UNCHANGED Storage ]_vars

\* an update has succeeded on one artifact while another one holds text
C18_UpdateBesideText ==
    /\ call.op = "update_file_tool"
    /\ call.changes # <<>>
    /\ result = OkRecord(call.file, call.changes)
    /\ content[call.file] # <<>>
    /\ \E g \in FileSet \ {call.file} : content[g] # <<>>

(* C19: update_file_tool with an empty batch, or with a batch whose every   *)
(* operation is skipped, leaves the content of the artifact unchanged,      *)
(* character for character.                                                 *)
C19_SkippedBatchKeepsContent ==
    [][ ( /\ Applied
          /\ AllIndexed(call'.changes)
          /\ \A k \in 1..Len(call'.changes) :
               ~Effective(call'.changes[k], Len(Loaded)) )
        => content'[call'.file] = content[call'.file] ]_vars

(* C20: an empty artifact has no line: a replace or a delete changes        *)
(* nothing at any index, an insert takes effect at index 0 only, and        *)
(* after insert 0 with content X the artifact holds the one line X.         *)
C20_EmptyArtifact ==
    [][ ( /\ Applied
          /\ content[call'.file] = <<>>
          /\ Len(call'.changes) = 1
          /\ ~Unknown(call'.changes[1])
          /\ HasIndex(call'.changes[1]) )
        => /\ result' = OkRecord(call'.file, call'.changes)
           /\ content'[call'.file]
                = IF call'.changes[1].action = "insert" /\ call'.changes[1].line = 0
                  THEN call'.changes[1].content \o <<NL>>
                  ELSE <<>> ]_vars

\* insert 0 X on an empty artifact has left the one line X
C20_FirstLine ==
    /\ call.op = "update_file_tool"
    /\ call.changes = <<[action |-> "insert", line |-> 0, content |-> Txt("X")]>>
    /\ result = OkRecord(call.file, call.changes)
    /\ content[call.file] = <<"X", NL>>

-----------------------------------------------------------------------------
(* Overlapping calls *)

\* caller p takes a step from the position pc
Steps(p, pc) == threads[p].pc = pc /\ threads'[p] # threads[p]

(* C14: when two calls that write the same artifact overlap, the write      *)
(* step of a call leaves the artifact holding exactly the text that call    *)
(* computed from what it read, so the content after the last write step is  *)
(* the output of the last writer and never a mixture of two outputs.        *)
C14_LastWriterWins ==
    [][ \A p \in Procs :
          (Steps(p, "flush") \/ Steps(p, "update_flush"))
          => content'[threads[p].file] = threads[p].out ]_vars

(* C15: the creating step of ensure_files_exist, in ensure_website or in    *)
(* get_website, never changes the content of an artifact that exists,       *)
(* whatever another call has done since the existence test.                 *)
C15_EnsureNeverOverwrites ==
    [][ \A p \in Procs :
          Steps(p, "create")
          => \A f \in FileSet : Present(f) => content'[f] = content[f] ]_vars

(* C16: a read of an artifact, by read_file_tool or by get_website, while   *)
(* another call is between opening that artifact for writing and writing    *)
(* it, returns the complete content from before the write or the complete   *)
(* content the write leaves, as a read on its own would return them.        *)
C16_ReadsWholeContent ==
    [][ \A p \in Procs, q \in Procs :
          LET f   == IF threads[p].pc = "read" THEN threads[p].file
                     ELSE FILES[threads[p].i]
              got == IF threads[p].pc = "read" THEN threads'[p].ret.content
                     ELSE threads'[p].website[f]
          IN  ( /\ p # q
                /\ Steps(p, "read") \/ Steps(p, "state_read")
                /\ threads[q].pc \in {"flush", "update_flush"}
                /\ threads[q].file = f )
              => got \in {ReadText(threads[q].old), ReadText(threads[q].out)} ]_vars

====
